---- MODULE Spec2Model ----
(***************************************************************************)
(* Model of the LangGraph MCP dispatcher of src/langgraph_app.py: the      *)
(* keyword classifier (analyze_user_intent), the per-intent argument       *)
(* extraction and tool invocation (execute_mcp_tool, MCPClient.call_tool)  *)
(* and the two-node workflow built by create_mcp_workflow, driven by the   *)
(* callers of src/langgraph_app.py (main) and src/test_langgraph.py.       *)
(*                                                                         *)
(* Text is modelled character by character: a Python str is a sequence of  *)
(* one-character strings, so substring tests, lower-casing and the regular *)
(* expressions of the source are computed, not assumed.  Text produced by  *)
(* an f-string is the concatenation of its literal pieces and its values;  *)
(* a literal piece is kept as one element.                                 *)
(***************************************************************************)
EXTENDS Integers, Sequences, FiniteSets, TLC

VARIABLES messages, user_intent, tool_results, pc, calls, pre, stored

vars == <<messages, user_intent, tool_results, pc, calls, pre, stored>>

\* ------------------------------------------------------------------ bounds

\* Largest number of vocabulary phrases in one typed utterance.
MaxWords == 2

\* Largest number of pipeline runs on one shared MCPState (SessionSpec).
MaxTurns == 2

\* ------------------------------------------------------------ characters

UpperCase == <<"A", "B", "C", "D", "E", "F", "G", "H", "I", "J", "K", "L", "M", "N", "O", "P", "Q", "R", "S", "T", "U", "V", "W", "X", "Y", "Z">>

LowerCase == <<"a", "b", "c", "d", "e", "f", "g", "h", "i", "j", "k", "l", "m", "n", "o", "p", "q", "r", "s", "t", "u", "v", "w", "x", "y", "z">>

Digits == <<"0", "1", "2", "3", "4", "5", "6", "7", "8", "9">>

\* re's \s, restricted to the whitespace a typed line can hold
Whitespace == {" ", "\t"}

IsDigit(c) == \E i \in 1..Len(Digits) : Digits[i] = c

IsSpace(c) == c \in Whitespace

\* re's \w for ASCII text: letters, digits and the underscore
IsWord(c) ==
    \/ \E i \in 1..Len(LowerCase) : LowerCase[i] = c \/ UpperCase[i] = c
    \/ IsDigit(c)
    \/ c = "_"

\* str.lower() on one character
LowerChar(c) ==
    IF \E i \in 1..Len(UpperCase) : UpperCase[i] = c
    THEN LowerCase[CHOOSE i \in 1..Len(UpperCase) : UpperCase[i] = c]
    ELSE c

\* str.lower()
Lower(s) == [i \in 1..Len(s) |-> LowerChar(s[i])]

\* s[i-1:i-1+len(lit)] == lit  (1-based i)
MatchAt(s, i, lit) ==
    /\ i >= 1
    /\ i + Len(lit) - 1 <= Len(s)
    /\ \A j \in 1..Len(lit) : s[i + j - 1] = lit[j]

\* lit in s
Contains(s, lit) == \E i \in 1..Len(s) : MatchAt(s, i, lit)

\* any(keyword in query for keyword in keywords)
ContainsAny(s, keywords) == \E k \in 1..Len(keywords) : Contains(s, keywords[k])

\* ------------------------------------------------------------ classifier

SearchKeywords == << <<"s", "e", "a", "r", "c", "h">>, <<"f", "i", "n", "d">>, <<"w", "e", "b">>, <<"l", "o", "o", "k", " ", "u", "p">> >>

DiceKeywords == << <<"d", "i", "c", "e">>, <<"r", "o", "l", "l">>, <<"r", "a", "n", "d", "o", "m">> >>

CardKeywords == << <<"c", "a", "r", "d">>, <<"m", "a", "g", "i", "c">>, <<"m", "t", "g">>, <<"s", "c", "r", "y", "f", "a", "l", "l">> >>

PasswordKeywords == << <<"p", "a", "s", "s", "w", "o", "r", "d">>, <<"g", "e", "n", "e", "r", "a", "t", "e">> >>

kw_random == <<"r", "a", "n", "d", "o", "m">>

kw_set == <<"s", "e", "t">>

kw_symbol == <<"s", "y", "m", "b", "o", "l">>

\* The keyword cascade with the dice and card groups exchanged.
IntentCardFirst(query) ==
    IF ContainsAny(query, SearchKeywords) THEN "web_search"
    ELSE IF ContainsAny(query, CardKeywords) THEN
        IF Contains(query, kw_random) THEN "get_random_card"
        ELSE IF Contains(query, kw_set) THEN "get_set_info"
        ELSE "search_card_by_name"
    ELSE IF ContainsAny(query, DiceKeywords) THEN "roll_dice"
    ELSE IF ContainsAny(query, PasswordKeywords) THEN "generate_password"
    ELSE "web_search"

\* The if/elif cascade of analyze_user_intent on the lower-cased query.
Intent(query) ==
    IF ContainsAny(query, SearchKeywords) THEN "web_search"
    ELSE IF ContainsAny(query, DiceKeywords) THEN "roll_dice"
    ELSE IF ContainsAny(query, CardKeywords) THEN
        IF Contains(query, kw_random) THEN "get_random_card"
        ELSE IF Contains(query, kw_set) THEN "get_set_info"
        ELSE "search_card_by_name"
    ELSE IF ContainsAny(query, PasswordKeywords) THEN "generate_password"
    ELSE "web_search"

\* ------------------------------------------------------- regular expressions

RECURSIVE DigitRunEnd(_, _)
\* Index of the last character of the greedy \d+ that starts at s[i].
DigitRunEnd(s, i) ==
    IF i + 1 <= Len(s) /\ IsDigit(s[i + 1]) THEN DigitRunEnd(s, i + 1) ELSE i

RECURSIVE SpaceRunEnd(_, _)
\* Index of the last character of the greedy \s+ that starts at s[i].
SpaceRunEnd(s, i) ==
    IF i + 1 <= Len(s) /\ IsSpace(s[i + 1]) THEN SpaceRunEnd(s, i + 1) ELSE i

RECURSIVE WordRunEnd(_, _)
\* Index of the last character of the greedy \w+ that starts at s[i].
WordRunEnd(s, i) ==
    IF i + 1 <= Len(s) /\ IsWord(s[i + 1]) THEN WordRunEnd(s, i + 1) ELSE i

NoMatch == [found |-> FALSE, group |-> <<>>]

\* End index of a match of (\d+d\d+(?:k\d+)?) that starts at s[i]; 0 if none.
DiceMatchEnd(s, i) ==
    IF i <= Len(s) /\ IsDigit(s[i]) THEN
        LET a == DigitRunEnd(s, i) IN
        IF a + 2 <= Len(s) /\ s[a + 1] = "d" /\ IsDigit(s[a + 2]) THEN
            LET b == DigitRunEnd(s, a + 2) IN
            IF b + 2 <= Len(s) /\ s[b + 1] = "k" /\ IsDigit(s[b + 2])
            THEN DigitRunEnd(s, b + 2)
            ELSE b
        ELSE 0
    ELSE 0

\* re.search(r'(\d+d\d+(?:k\d+)?)', query): the leftmost match, group(1)
DiceSearch(s) ==
    IF \E i \in 1..Len(s) : DiceMatchEnd(s, i) > 0 THEN
        LET i == CHOOSE i \in 1..Len(s) :
                    /\ DiceMatchEnd(s, i) > 0
                    /\ \A j \in 1..(i - 1) : DiceMatchEnd(s, j) = 0
        IN [found |-> TRUE, group |-> SubSeq(s, i, DiceMatchEnd(s, i))]
    ELSE NoMatch

\* set\s+(\w+) matches at s[i]; with ignorecase the literal is compared
\* case-folded (re.IGNORECASE).
SetMatchAt(s, i, ignorecase) ==
    /\ MatchAt(IF ignorecase THEN Lower(s) ELSE s, i, kw_set)
    /\ i + 3 <= Len(s)
    /\ IsSpace(s[i + 3])
    /\ SpaceRunEnd(s, i + 3) + 1 <= Len(s)
    /\ IsWord(s[SpaceRunEnd(s, i + 3) + 1])

\* re.search(r'set\s+(\w+)', query, flags): the leftmost match, group(1)
SetSearchFlags(s, ignorecase) ==
    IF \E i \in 1..Len(s) : SetMatchAt(s, i, ignorecase) THEN
        LET i == CHOOSE i \in 1..Len(s) :
                    /\ SetMatchAt(s, i, ignorecase)
                    /\ \A j \in 1..(i - 1) : ~SetMatchAt(s, j, ignorecase)
            w == SpaceRunEnd(s, i + 3) + 1
        IN [found |-> TRUE, group |-> SubSeq(s, w, WordRunEnd(s, w))]
    ELSE NoMatch

\* re.search(r'set\s+(\w+)', query): no flags, so the literal is case-sensitive
SetSearch(s) == SetSearchFlags(s, FALSE)

\* re.search(r'(\d+)', query): the first run of digits
LengthSearch(s) ==
    IF \E i \in 1..Len(s) : IsDigit(s[i]) THEN
        LET i == CHOOSE i \in 1..Len(s) :
                    IsDigit(s[i]) /\ \A j \in 1..(i - 1) : ~IsDigit(s[j])
        IN [found |-> TRUE, group |-> SubSeq(s, i, DigitRunEnd(s, i))]
    ELSE NoMatch

DigitValue(c) == (CHOOSE i \in 1..Len(Digits) : Digits[i] = c) - 1

RECURSIVE ParseInt(_)
\* int(text) for a run of decimal digits
ParseInt(ds) ==
    IF Len(ds) = 0 THEN 0
    ELSE 10 * ParseInt(SubSeq(ds, 1, Len(ds) - 1)) + DigitValue(ds[Len(ds)])

RECURSIVE SubFrom(_, _, _)
\* re.sub(lit + r'\s+', '', s) from s[i] on: every non-overlapping leftmost
\* occurrence of lit followed by whitespace is removed, wherever it stands.
SubFrom(s, i, lit) ==
    IF i > Len(s) THEN <<>>
    ELSE IF /\ MatchAt(s, i, lit)
            /\ i + Len(lit) <= Len(s)
            /\ IsSpace(s[i + Len(lit)])
    THEN SubFrom(s, SpaceRunEnd(s, i + Len(lit)) + 1, lit)
    ELSE <<s[i]>> \o SubFrom(s, i + 1, lit)

\* \s+lit$ matches from s[i] to the end of s
TailMatchAt(s, i, lit) ==
    /\ IsSpace(s[i])
    /\ MatchAt(s, SpaceRunEnd(s, i) + 1, lit)
    /\ SpaceRunEnd(s, i) + Len(lit) = Len(s)

\* re.sub(r'\s+' + lit + '$', '', s)
SubTail(s, lit) ==
    IF \E i \in 1..Len(s) : TailMatchAt(s, i, lit) THEN
        LET i == CHOOSE i \in 1..Len(s) :
                    /\ TailMatchAt(s, i, lit)
                    /\ \A j \in 1..(i - 1) : ~TailMatchAt(s, j, lit)
        IN SubSeq(s, 1, i - 1)
    ELSE s

\* \s+lit\s+.*$ matches from s[i] to the end of s
ClauseMatchAt(s, i, lit) ==
    /\ IsSpace(s[i])
    /\ MatchAt(s, SpaceRunEnd(s, i) + 1, lit)
    /\ SpaceRunEnd(s, i) + Len(lit) + 1 <= Len(s)
    /\ IsSpace(s[SpaceRunEnd(s, i) + Len(lit) + 1])

\* re.sub(r'\s+' + lit + r'\s+.*$', '', s)
SubClause(s, lit) ==
    IF \E i \in 1..Len(s) : ClauseMatchAt(s, i, lit) THEN
        LET i == CHOOSE i \in 1..Len(s) :
                    /\ ClauseMatchAt(s, i, lit)
                    /\ \A j \in 1..(i - 1) : ~ClauseMatchAt(s, j, lit)
        IN SubSeq(s, 1, i - 1)
    ELSE s

RECURSIVE Strip(_)
\* str.strip()
Strip(s) ==
    IF Len(s) = 0 THEN s
    ELSE IF IsSpace(s[1]) THEN Strip(Tail(s))
    ELSE IF IsSpace(s[Len(s)]) THEN Strip(SubSeq(s, 1, Len(s) - 1))
    ELSE s

\* ------------------------------------------------------ card-name extraction

prefixes_to_remove ==
    << <<"w", "h", "a", "t", " ", "d", "o", "e", "s", " ", "t", "h", "e", " ", "c", "a", "r", "d">>, <<"w", "h", "a", "t", " ", "d", "o", "e", "s">>, <<"f", "i", "n", "d", " ", "t", "h", "e", " ", "c", "a", "r", "d">>, <<"f", "i", "n", "d">>,
       <<"s", "e", "a", "r", "c", "h", " ", "f", "o", "r", " ", "t", "h", "e", " ", "c", "a", "r", "d">>, <<"s", "e", "a", "r", "c", "h", " ", "f", "o", "r">>, <<"c", "a", "r", "d">>, <<"m", "a", "g", "i", "c", " ", "c", "a", "r", "d">>,
       <<"m", "t", "g", " ", "c", "a", "r", "d">>, <<"s", "h", "o", "w", " ", "m", "e">>, <<"t", "e", "l", "l", " ", "m", "e", " ", "a", "b", "o", "u", "t">> >>

RECURSIVE RemovePrefixes(_, _)
\* for prefix in prefixes_to_remove: card_name = re.sub(prefix, '', card_name)
\* applied to the first n patterns, in order
RemovePrefixes(s, n) ==
    IF n = 0 THEN s
    ELSE SubFrom(RemovePrefixes(s, n - 1), 1, prefixes_to_remove[n])

kw_do == <<"d", "o">>

kw_do_q == <<"d", "o", "?">>

kw_work == <<"w", "o", "r", "k">>

kw_work_q == <<"w", "o", "r", "k", "?">>

\* for suffix in suffixes_to_remove: card_name = re.sub(suffix, '', card_name)
RemoveSuffixes(s) ==
    SubClause(SubClause(SubTail(SubTail(SubTail(SubTail(s,
        kw_do), kw_do_q), kw_work), kw_work_q), kw_do), kw_work)

\* The card_name computed by the search_card_by_name branch.
CardName(query) ==
    Strip(RemoveSuffixes(RemovePrefixes(Lower(query), Len(prefixes_to_remove))))

\* ------------------------------------------------------------ tool registry

\* MCPClient.tools: the names registered in MCPClient.__init__
tools ==
    {"web_search", "roll_dice", "search_card_by_name", "get_random_card",
     "get_set_info", "generate_password"}

\* What a call of a server function can do: return a text or raise.
\* web_search and roll_dice let the exceptions of their collaborators out;
\* the three Scryfall functions catch every Exception and return its text;
\* generate_password only builds a string.
HandlerOutcomes(tool_name) ==
    CASE tool_name = "web_search" ->
            {[raised |-> FALSE, text |-> "<search context>"],
             [raised |-> TRUE, text |-> "<tavily error>"]}
      [] tool_name = "roll_dice" ->
            {[raised |-> FALSE, text |-> "<rolls>"],
             [raised |-> TRUE, text |-> "<dice error>"]}
      [] tool_name = "search_card_by_name" ->
            {[raised |-> FALSE, text |-> "<card>"],
             [raised |-> FALSE, text |-> "Error searching for card"]}
      [] tool_name = "get_random_card" ->
            {[raised |-> FALSE, text |-> "<random card>"],
             [raised |-> FALSE, text |-> "Error getting random card"]}
      [] tool_name = "get_set_info" ->
            {[raised |-> FALSE, text |-> "<set>"],
             [raised |-> FALSE, text |-> "Error getting set info"]}
      [] tool_name = "generate_password" ->
            {[raised |-> FALSE, text |-> "Generated password: <password>"]}

\* The outcome slot of a turn in which no server function runs.
NoOutcome == [raised |-> FALSE, text |-> ""]

\* MCPClient.call_tool: the text it returns (it never raises: the except
\* clause turns the handler's exception into a returned text).
call_tool(tool_name, outcome) ==
    IF tool_name \in tools THEN
        IF outcome.raised
        THEN [raised |-> FALSE,
              text |-> <<"Error calling tool ", tool_name, ": ", outcome.text>>]
        ELSE [raised |-> FALSE, text |-> <<outcome.text>>]
    ELSE [raised |-> FALSE, text |-> <<"Tool ", tool_name, " not found">>]

\* ------------------------------------------------------------- the request

DiceInstruction == <<"Please specify dice notation (e.g., '2d20k1')">>

SetInstruction == <<"Please specify a set code (e.g., 'set DOM')">>

UnknownIntentText ==
    <<"I'm not sure how to help with that. Try asking about web search, dice rolling, Magic cards, or password generation.">>

Call(tool_name, kwargs) ==
    [call |-> TRUE, tool |-> tool_name, kwargs |-> kwargs, text |-> <<>>]

NoCall(text) ==
    [call |-> FALSE, tool |-> "", kwargs |-> <<>>, text |-> text]

\* The roll_dice branch with a default notation in place of the instruction.
roll_dice_request_default(query) ==
    IF DiceSearch(query).found
    THEN Call("roll_dice", [notation |-> DiceSearch(query).group])
    ELSE Call("roll_dice", [notation |-> <<"1", "d", "6">>])

\* The roll_dice branch: the notation found in the query, or the instruction.
roll_dice_request(query) ==
    IF DiceSearch(query).found
    THEN Call("roll_dice", [notation |-> DiceSearch(query).group])
    ELSE NoCall(DiceInstruction)

\* The get_set_info branch calling the tool of the branch above it.
get_set_info_request_wrong_tool(query) ==
    IF SetSearch(query).found
    THEN Call("get_random_card", <<>>)
    ELSE NoCall(SetInstruction)

\* The get_set_info branch: the set code found in the query, or the
\* instruction.
get_set_info_request(query) ==
    IF SetSearch(query).found
    THEN Call("get_set_info", [set_code |-> SetSearch(query).group])
    ELSE NoCall(SetInstruction)

\* The generate_password branch.
generate_password_request(query) ==
    Call("generate_password",
         [length |-> IF LengthSearch(query).found
                     THEN ParseInt(LengthSearch(query).group)
                     ELSE 12,
          include_symbols |-> (~Contains(query, kw_symbol)
                               \/ Contains(query, kw_symbol))])

\* The if/elif chain of execute_mcp_tool up to the call of
\* mcp_client.call_tool: the tool and keyword arguments it calls with, or the
\* text it takes as result without calling.
Request(intent, query) ==
    CASE intent = "web_search" -> Call("web_search", [query |-> query])
      [] intent = "roll_dice" -> roll_dice_request(query)
      [] intent = "search_card_by_name" ->
            Call("search_card_by_name", [card_name |-> CardName(query)])
      [] intent = "get_random_card" -> Call("get_random_card", <<>>)
      [] intent = "get_set_info" -> get_set_info_request(query)
      [] intent = "generate_password" -> generate_password_request(query)
      [] OTHER -> NoCall(UnknownIntentText)

\* f"I used the {state.user_intent} tool to help you:\n\n{result}"
SuccessContent(intent, result) ==
    <<"I used the ", intent, " tool to help you:\n\n">> \o result

\* f"Sorry, I encountered an error: {str(e)}"
ErrorContent(message) == <<"Sorry, I encountered an error: ", message>>

HumanMessage(content) == [type |-> "human", content |-> content]

AIMessage(content) == [type |-> "ai", content |-> content]

\* ------------------------------------------------------------- utterances

\* The inputs of test_workflow.
test_cases ==
    << <<"S", "e", "a", "r", "c", "h", " ", "f", "o", "r", " ", "i", "n", "f", "o", "r", "m", "a", "t", "i", "o", "n", " ", "a", "b", "o", "u", "t", " ", "P", "y", "t", "h", "o", "n", " ", "p", "r", "o", "g", "r", "a", "m", "m", "i", "n", "g">>,
       <<"R", "o", "l", "l", " ", "2", "d", "2", "0", "k", "1">>,
       <<"F", "i", "n", "d", " ", "t", "h", "e", " ", "c", "a", "r", "d", " ", "L", "i", "g", "h", "t", "n", "i", "n", "g", " ", "B", "o", "l", "t">>,
       <<"G", "e", "n", "e", "r", "a", "t", "e", " ", "a", " ", "p", "a", "s", "s", "w", "o", "r", "d", " ", "w", "i", "t", "h", " ", "1", "6", " ", "c", "h", "a", "r", "a", "c", "t", "e", "r", "s">>,
       <<"G", "e", "t", " ", "a", " ", "r", "a", "n", "d", "o", "m", " ", "M", "a", "g", "i", "c", " ", "c", "a", "r", "d">> >>

\* Phrases a typed line is made of: the pieces of the test inputs and of the
\* examples the source prints, in the letter cases a user may type.
Vocabulary ==
    << <<"S", "e", "a", "r", "c", "h", " ", "f", "o", "r">>, <<"F", "i", "n", "d", " ", "t", "h", "e", " ", "c", "a", "r", "d">>, <<"L", "i", "g", "h", "t", "n", "i", "n", "g", " ", "B", "o", "l", "t">>, <<"G", "e", "t", " ", "a", " ", "r", "a", "n", "d", "o", "m">>,
       <<"M", "a", "g", "i", "c", " ", "c", "a", "r", "d">>, <<"R", "o", "l", "l">>, <<"2", "d", "2", "0", "k", "1">>, <<"s", "o", "m", "e", " ", "d", "i", "c", "e">>, <<"m", "t", "g", " ", "s", "e", "t">>,
       <<"S", "E", "T", " ", "D", "O", "M">>, <<"s", "e", "t", " ", "D", "O", "M">>, <<"G", "e", "n", "e", "r", "a", "t", "e", " ", "a", " ", "p", "a", "s", "s", "w", "o", "r", "d">>,
       <<"w", "i", "t", "h", " ", "1", "6", " ", "c", "h", "a", "r", "a", "c", "t", "e", "r", "s">>, <<"h", "e", "l", "l", "o">>, <<"W", "h", "a", "t", " ", "d", "o", "e", "s", " ", "t", "h", "e", " ", "c", "a", "r", "d">>,
       <<"B", "o", "l", "t", " ", "d", "o", "?">> >>

RECURSIVE Join(_)
\* " ".join(phrases)
Join(phrases) ==
    IF Len(phrases) = 1 THEN phrases[1]
    ELSE phrases[1] \o <<" ">> \o Join(Tail(phrases))

\* The lines of at most MaxWords phrases.
Utterances ==
    { Join([i \in DOMAIN ix |-> Vocabulary[ix[i]]]) :
        ix \in UNION { [1..n -> 1..Len(Vocabulary)] : n \in 1..MaxWords } }

\* The lines typed in a session that keeps one MCPState: the test inputs and
\* two lines that end without a tool call.
SessionUtterances ==
    { test_cases[i] : i \in 1..Len(test_cases) }
        \cup { <<"r", "o", "l", "l", " ", "s", "o", "m", "e", " ", "d", "i", "c", "e">>, <<"M", "a", "g", "i", "c", " ", "c", "a", "r", "d", " ", "S", "E", "T", " ", "D", "O", "M">>, <<"m", "t", "g", " ", "s", "e", "t", " ", "D", "O", "M">> }

\* ------------------------------------------------------------------ state
\* messages, user_intent, tool_results: the fields of MCPState (current_query
\* is never written and is left out).  pc: the node of the compiled graph
\* that runs next, "idle" before a run and "END" after it.  calls, pre, stored: history of
\* the current run: the server functions called, the transcript the run
\* started with, and whether analyze_user_intent has assigned user_intent.

None == "None"

Init ==
    /\ messages = <<>>
    /\ user_intent = None
    /\ tool_results = <<>>
    /\ pc = "idle"
    /\ calls = <<>>
    /\ pre = <<>>
    /\ stored = FALSE

\* messages[0] in place of messages[-1]
last_message_first(msgs) == msgs[1]

\* messages[-1]
last_message(msgs) == msgs[Len(msgs)]

\* state.messages.append(message), as a replacement of the last entry
append_message_overwrite(msgs, message) ==
    [msgs EXCEPT ![Len(msgs)] = message]

\* state.messages.append(message)
append_message(msgs, message) == Append(msgs, message)

\* main, test_workflow: a fresh MCPState holding the typed line, handed to
\* workflow.ainvoke.
NewState(u) ==
    /\ pc = "idle"
    /\ messages' = <<HumanMessage(u)>>
    /\ user_intent' = None
    /\ tool_results' = <<>>
    /\ pc' = "analyze_intent"
    /\ calls' = <<>>
    /\ pre' = messages'
    /\ stored' = FALSE

\* A caller that keeps the MCPState of the previous run: it appends the next
\* typed line and hands the same state to workflow.ainvoke.
NextTurn(u) ==
    /\ pc \in {"idle", "END"}
    /\ Len(messages) < 2 * MaxTurns
    /\ messages' = Append(messages, HumanMessage(u))
    /\ pc' = "analyze_intent"
    /\ calls' = <<>>
    /\ pre' = messages'
    /\ stored' = FALSE
    /\ UNCHANGED <<user_intent, tool_results>>

\* Node analyze_intent.
analyze_user_intent ==
    /\ pc = "analyze_intent"
    /\ IF messages # <<>> /\ last_message(messages).type = "human"
       THEN /\ user_intent' = Intent(Lower(last_message(messages).content))
            /\ stored' = TRUE
       ELSE UNCHANGED <<user_intent, stored>>
    /\ pc' = "execute_tool"
    /\ UNCHANGED <<messages, tool_results, calls, pre>>

\* Node execute_tool.  The server function runs inside call_tool, so its
\* outcome is chosen here; a raise that reaches the try block of
\* execute_mcp_tool takes the except branch.
execute_mcp_tool ==
    /\ pc = "execute_tool"
    /\ pc' = "should_continue"
    /\ UNCHANGED <<user_intent, pre, stored>>
    /\ IF user_intent = None
       THEN UNCHANGED <<messages, tool_results, calls>>
       ELSE LET query == last_message(messages).content
                req == Request(user_intent, query)
            IN \E outcome \in (IF req.call /\ req.tool \in tools
                               THEN HandlerOutcomes(req.tool)
                               ELSE {NoOutcome}) :
                LET result == IF req.call
                              THEN call_tool(req.tool, outcome)
                              ELSE [raised |-> FALSE, text |-> req.text]
                IN /\ calls' = IF req.call /\ req.tool \in tools
                                THEN Append(calls,
                                            [tool |-> req.tool,
                                             kwargs |-> req.kwargs,
                                             raised |-> outcome.raised,
                                             text |-> outcome.text])
                                ELSE calls
                   /\ IF result.raised
                      THEN /\ messages' = append_message(messages,
                                    AIMessage(ErrorContent(result.text)))
                           /\ UNCHANGED tool_results
                      ELSE /\ tool_results' =
                                    (user_intent :> result.text) @@ tool_results
                           /\ messages' = append_message(messages,
                                    AIMessage(SuccessContent(user_intent,
                                                             result.text)))

\* The conditional edge after execute_tool: both returns are "end".
should_continue ==
    /\ pc = "should_continue"
    /\ pc' = "END"
    /\ UNCHANGED <<messages, user_intent, tool_results, calls, pre, stored>>

\* main, test_workflow: the loop prints the last message and goes on to the
\* next line; the MCPState of the finished run is dropped.
next_input ==
    /\ pc = "END"
    /\ messages' = <<>>
    /\ user_intent' = None
    /\ tool_results' = <<>>
    /\ pc' = "idle"
    /\ calls' = <<>>
    /\ pre' = <<>>
    /\ stored' = FALSE

\* The interactive loop of main and the loop of test_workflow.
Next ==
    \/ \E u \in Utterances : NewState(u)
    \/ analyze_user_intent
    \/ execute_mcp_tool
    \/ should_continue
    \/ next_input

Spec == Init /\ [][Next]_vars

\* One MCPState carried through MaxTurns runs.
SessionNext ==
    \/ \E u \in SessionUtterances : NextTurn(u)
    \/ analyze_user_intent
    \/ execute_mcp_tool
    \/ should_continue

SessionSpec == Init /\ [][SessionNext]_vars

\* ------------------------------------------------------------------ claims

\* The typed line of the current run: the last entry of the transcript the
\* run started with.
Utterance == pre[Len(pre)].content

\* execute_mcp_tool has returned in the current run.
RunDone == pc \in {"should_continue", "END"}

\* Content of the last entry of the transcript.
Reply == messages[Len(messages)].content

\* C1: whenever the server function called in a run raised, the run ends with
\* one appended assistant message whose content is "Sorry, I encountered an
\* error: " followed by the exception's message, and not the "I used the
\* <intent> tool to help you:" template.
C1_HandlerFailureReportedAsError ==
    (RunDone /\ calls # <<>> /\ calls[Len(calls)].raised) =>
        /\ Len(messages) = Len(pre) + 1
        /\ messages[Len(messages)].type = "ai"
        /\ Reply = ErrorContent(calls[Len(calls)].text)
        /\ Reply[1] # "I used the "

\* C2: a run started on a transcript that ends with a user message leaves the
\* transcript alone until execute_mcp_tool, and ends with the old transcript
\* followed by exactly one assistant message, whatever the outcome.
C2_RunAppendsExactlyOneAssistantTurn ==
    (pre # <<>> /\ pre[Len(pre)].type = "human") =>
        IF RunDone
        THEN /\ Len(messages) = Len(pre) + 1
             /\ SubSeq(messages, 1, Len(pre)) = pre
             /\ messages[Len(messages)].type = "ai"
        ELSE messages = pre

\* A second run on the same state has ended after a server function raised.
C2_Witness ==
    /\ pc = "END"
    /\ Len(pre) = 3
    /\ Len(messages) = 4
    /\ calls # <<>>
    /\ calls[1].raised

\* C3: a line with a card keyword and the word "random" is classified as
\* get_random_card, and get_random_card is the server function called.
C3_RandomCardQueryIsGetRandomCard ==
    (/\ stored
     /\ ContainsAny(Lower(Utterance), CardKeywords)
     /\ Contains(Lower(Utterance), kw_random)) =>
        /\ user_intent = "get_random_card"
        /\ RunDone => (Len(calls) = 1 /\ calls[1].tool = "get_random_card")

find_the_card == <<"f", "i", "n", "d", " ", "t", "h", "e", " ", "c", "a", "r", "d", " ">>

lightning_bolt == <<"l", "i", "g", "h", "t", "n", "i", "n", "g", " ", "b", "o", "l", "t">>

\* C4: a line that starts with "find the card " (in any case) and holds no
\* dice keyword is classified as search_card_by_name and search_card_by_name
\* is called; for "Find the card Lightning Bolt" the card_name argument is
\* "lightning bolt".
C4_FindTheCardIsSearchCardByName ==
    (/\ stored
     /\ MatchAt(Lower(Utterance), 1, find_the_card)
     /\ ~ContainsAny(Lower(Utterance), DiceKeywords)) =>
        /\ user_intent = "search_card_by_name"
        /\ RunDone =>
            /\ Len(calls) = 1
            /\ calls[1].tool = "search_card_by_name"
            /\ (Utterance = test_cases[3]
                    => calls[1].kwargs.card_name = lightning_bolt)

kw_search == <<"s", "e", "a", "r", "c", "h">>

\* C5: once analyze_user_intent has run, user_intent is one of the six
\* intents and is the first match of the cascade on the lower-cased line:
\* search keywords, then dice keywords, then card keywords (random, set,
\* otherwise by name), then password keywords, otherwise web_search; a line
\* that holds "search" is always web_search.
C5_ClassifierIsOrderedCascade ==
    stored =>
        LET q == Lower(Utterance)
            search == ContainsAny(q, SearchKeywords)
            dice == ContainsAny(q, DiceKeywords)
            card == ContainsAny(q, CardKeywords)
            password == ContainsAny(q, PasswordKeywords)
        IN /\ user_intent \in tools
           /\ Contains(q, kw_search) => user_intent = "web_search"
           /\ search => user_intent = "web_search"
           /\ (~search /\ dice) => user_intent = "roll_dice"
           /\ (~search /\ ~dice /\ card /\ Contains(q, kw_random))
                => user_intent = "get_random_card"
           /\ (~search /\ ~dice /\ card /\ ~Contains(q, kw_random)
                    /\ Contains(q, kw_set))
                => user_intent = "get_set_info"
           /\ (~search /\ ~dice /\ card /\ ~Contains(q, kw_random)
                    /\ ~Contains(q, kw_set))
                => user_intent = "search_card_by_name"
           /\ (~search /\ ~dice /\ ~card /\ password)
                => user_intent = "generate_password"
           /\ (~search /\ ~dice /\ ~card /\ ~password)
                => user_intent = "web_search"

\* A line with "search" and a card keyword has been classified as web_search.
C5_Witness ==
    /\ stored
    /\ Contains(Lower(Utterance), kw_search)
    /\ ContainsAny(Lower(Utterance), CardKeywords)
    /\ user_intent = "web_search"

\* The line of the current run makes the extraction of its intent give up:
\* roll_dice without <digits>d<digits>, or get_set_info without "set <word>"
\* as the source's pattern reads it.
ShortCircuit ==
    \/ /\ user_intent = "roll_dice"
       /\ \A i \in 1..Len(Utterance) : DiceMatchEnd(Utterance, i) = 0
    \/ /\ user_intent = "get_set_info"
       /\ \A i \in 1..Len(Utterance) : ~SetMatchAt(Utterance, i, FALSE)

\* C6: in a run whose extraction short-circuits, no server function is called.
C6_ShortCircuitCallsNoHandler ==
    (stored /\ ShortCircuit) => calls = <<>>

\* "Roll some dice" has been answered without a call.
C6_Witness ==
    /\ pc = "END"
    /\ user_intent = "roll_dice"
    /\ ShortCircuit
    /\ Reply[Len(Reply)] = DiceInstruction[1]
    /\ calls = <<>>

\* C7: in a run whose extraction short-circuits, the content of the appended
\* assistant message is the instruction text itself.
C7_ShortCircuitReplyIsInstruction ==
    (RunDone /\ stored /\ ShortCircuit) =>
        Reply = (IF user_intent = "roll_dice"
                 THEN DiceInstruction
                 ELSE SetInstruction)

\* The registry call the current line alone determines.
ExpectedRequest == Request(Intent(Lower(Utterance)), Utterance)

C9_AtMostOneHandlerAfterClassification ==
    /\ Len(calls) <= 1
    /\ calls # <<>> =>
        /\ stored
        /\ RunDone
        /\ calls[1].tool \in tools
        /\ calls[1].tool = user_intent

\* A run classified as get_set_info has called a server function.
C9_Witness ==
    /\ pc = "END"
    /\ user_intent = "get_set_info"
    /\ Len(calls) = 1

\* C10: for intent get_set_info, when the line holds "set" in any letter case
\* followed by whitespace and a word, get_set_info is called with set_code
\* equal to that word; the instruction is given only when there is no such
\* match in any case.
C10_SetCodeMatchedCaseInsensitively ==
    (RunDone /\ stored /\ user_intent = "get_set_info") =>
        IF SetSearchFlags(Utterance, TRUE).found
        THEN /\ Len(calls) = 1
             /\ calls[1].tool = "get_set_info"
             /\ calls[1].kwargs.set_code = SetSearchFlags(Utterance, TRUE).group
        ELSE calls = <<>>

\* C11: execute_mcp_tool sets the tool_results entry keyed by the intent to
\* the handler's text when, and only when, a server function was called in
\* that step and returned; a step that short-circuits, finds no registered
\* tool or whose handler raises leaves tool_results unchanged.
C11_ResultRecordedOnlyOnHandlerSuccess ==
    [][pc = "execute_tool" =>
        IF calls' # calls /\ ~calls'[Len(calls')].raised
        THEN /\ DOMAIN tool_results' = DOMAIN tool_results \cup {user_intent}
             /\ tool_results'[user_intent] = <<calls'[Len(calls')].text>>
             /\ \A k \in DOMAIN tool_results \ {user_intent} :
                    tool_results'[k] = tool_results[k]
        ELSE tool_results' = tool_results]_vars

====
